---- MODULE Spec2Model ----
(***************************************************************************)
(* Model of ai-app-builder/services/main.py: the directories on disk,      *)
(* EnhancementService (_read_project_files, _clean_json_response,          *)
(* analyze_existing_code, generate_enhancement, _apply_enhancements) with  *)
(* the request handlers /analyze-existing and /enhance-app, and            *)
(* AppBuilderService with the handler /generate and its background task.   *)
(*                                                                         *)
(* Paths are sequences of segments, file contents and oracle texts are     *)
(* sequences of one-character strings.  No handler contains an await that  *)
(* suspends (model.generate_content is a blocking call), so one handling   *)
(* of a request is one atomic action; the order of its effects is kept in  *)
(* the trace it records.                                                   *)
(***************************************************************************)
EXTENDS Integers, Sequences, FiniteSets, TLC

VARIABLES fs, dirs, call, resp, loop, bg

vars == <<fs, dirs, call, resp, loop, bg>>

(***************************************************************************)
(* Bounds                                                                  *)
(***************************************************************************)
MaxMods == 2

MaxNew == 1

(***************************************************************************)
(* Paths (pathlib.Path) and the directory tree                             *)
(***************************************************************************)
ProjectDir == <<"proj">>

MissingDir == <<"missing">>

KeyMain == <<"main.py">>

KeySub == <<"sub", "new.py">>

KeyEvil == <<"..", "evil.py">>

KeyUnderFile == <<"README.md", "x.py">>

\* the paths a modifications entry is drawn from: a file of the project, a
\* file of a directory that may not exist, a path that leaves the project
ModKeys == {KeyMain, KeySub, KeyEvil}

\* the paths a new_files entry is drawn from: an existing file, a file of a
\* directory that may not exist, a path below a regular file
NewKeys == {KeyMain, KeySub, KeyUnderFile}

Parent(p) == SubSeq(p, 1, Len(p) - 1)

IsPrefix(p, q) == Len(p) <= Len(q) /\ SubSeq(q, 1, Len(p)) = p

RECURSIVE Resolve(_, _)
\* The file-system's resolution of p after the prefix acc: a ".." segment
\* steps to the parent directory.
Resolve(acc, p) ==
    IF p = <<>> THEN acc
    ELSE IF Head(p) = ".."
         THEN Resolve(IF acc = <<>> THEN acc ELSE Parent(acc), Tail(p))
         ELSE Resolve(Append(acc, Head(p)), Tail(p))

\* project_dir / file_path, as the operating system resolves it
Join(dir, key) == Resolve(<<>>, dir \o key)

InsideRoot(root, file) == IsPrefix(root, file) /\ file # root

Ancestors(p) == {SubSeq(p, 1, n) : n \in 0..Len(p)}

(***************************************************************************)
(* Strings                                                                 *)
(***************************************************************************)
IsSpace(c) == c \in {" ", "\n", "\t"}

RECURSIVE LStrip(_)
LStrip(s) == IF s # <<>> /\ IsSpace(Head(s)) THEN LStrip(Tail(s)) ELSE s

RECURSIVE RStrip(_)
RStrip(s) ==
    IF s # <<>> /\ IsSpace(s[Len(s)]) THEN RStrip(SubSeq(s, 1, Len(s) - 1)) ELSE s

\* str.strip()
Strip(s) == RStrip(LStrip(s))

(***************************************************************************)
(* JSON values of a change-set mapping                                     *)
(***************************************************************************)
Str(s) == [t |-> "str", s |-> s]

Null == [t |-> "null", s |-> <<>>]

Num == [t |-> "int", s |-> <<>>]

Values == {Str(<<"a">>), Str(<<" ", "b">>), Str(<<" ">>), Str(<<>>), Null}

Entry(k, v) == [key |-> k, val |-> v]

\* the type check alone: any string passes, the empty one included
Applicable_TypeOnly(v) == v.t = "str"

\* the test on the raw length instead of the stripped text
Applicable_NoStrip(v) == v.t = "str" /\ v.s # <<>>

\* isinstance(new_code, str) and new_code.strip()
Applicable(v) == v.t = "str" /\ Strip(v.s) # <<>>

(***************************************************************************)
(* pathlib operations on the tree; each yields ok = FALSE where the call   *)
(* raises OSError.                                                         *)
(***************************************************************************)
\* Path.write_text(data): the parent must be a directory, the target not one
CanWrite(f, d, file) == Parent(file) \in d /\ file \notin d

\* a write of the stripped text instead of the text as given
WriteText_Stripped(f, file, data) ==
    [x \in (DOMAIN f) \cup {file} |-> IF x = file THEN Strip(data) ELSE f[x]]

WriteText(f, file, data) ==
    [x \in (DOMAIN f) \cup {file} |-> IF x = file THEN data ELSE f[x]]

\* Path.mkdir(parents=True, exist_ok=True): fails when a component is a file
CanMkdir(f, d, dir) == \A a \in Ancestors(dir) : a \notin DOMAIN f

Mkdir(d, dir) == d \cup Ancestors(dir)

(***************************************************************************)
(* EnhancementService._apply_enhancements                                  *)
(***************************************************************************)
\* a mapping field of the enhancements value
NoField == [present |-> FALSE, ismap |-> FALSE, items |-> <<>>]

MapField(items) == [present |-> TRUE, ismap |-> TRUE, items |-> items]

NonMapField == [present |-> TRUE, ismap |-> FALSE, items |-> <<>>]

\* the state threaded through one application
Tree(f, d) == [fs |-> f, dirs |-> d, writes |-> <<>>, err |-> FALSE]

WriteEvent(kind, i, file, data) == [kind |-> kind, idx |-> i, file |-> file, data |-> data]

RECURSIVE ApplyModifications(_, _, _, _)
\* lines 542-546: no mkdir, write_text on the joined path
ApplyModifications(st, project_dir, items, i) ==
    IF i > Len(items) THEN st
    ELSE LET e == items[i]
             full_path == Join(project_dir, e.key)
         IN  IF Applicable(e.val)
             THEN IF CanWrite(st.fs, st.dirs, full_path)
                  THEN ApplyModifications(
                         [st EXCEPT !.fs = WriteText(st.fs, full_path, e.val.s),
                                    !.writes = Append(st.writes,
                                        WriteEvent("mod", i, full_path, e.val.s))],
                         project_dir, items, i + 1)
                  ELSE [st EXCEPT !.err = TRUE]
             ELSE ApplyModifications(st, project_dir, items, i + 1)

RECURSIVE ApplyNewFiles(_, _, _, _)
\* lines 550-555: mkdir(parents=True, exist_ok=True), then write_text
ApplyNewFiles(st, project_dir, items, i) ==
    IF i > Len(items) THEN st
    ELSE LET e == items[i]
             full_path == Join(project_dir, e.key)
         IN  IF Applicable(e.val)
             THEN IF CanMkdir(st.fs, st.dirs, Parent(full_path))
                  THEN LET d2 == Mkdir(st.dirs, Parent(full_path))
                       IN  IF CanWrite(st.fs, d2, full_path)
                           THEN ApplyNewFiles(
                                  [st EXCEPT !.fs = WriteText(st.fs, full_path, e.val.s),
                                             !.dirs = d2,
                                             !.writes = Append(st.writes,
                                                 WriteEvent("new", i, full_path, e.val.s))],
                                  project_dir, items, i + 1)
                           ELSE [st EXCEPT !.dirs = d2, !.err = TRUE]
                  ELSE [st EXCEPT !.err = TRUE]
             ELSE ApplyNewFiles(st, project_dir, items, i + 1)

\* one mapping of the enhancements value: "k" in enhancements, and
\* enhancements["k"].items(), which raises on a value that is no mapping
ApplyField(st, project_dir, field, kind) ==
    IF st.err \/ ~field.present THEN st
    ELSE IF ~field.ismap THEN [st EXCEPT !.err = TRUE]
    ELSE IF kind = "mod" THEN ApplyModifications(st, project_dir, field.items, 1)
    ELSE ApplyNewFiles(st, project_dir, field.items, 1)

\* the two loops in the other order: new files first, modifications after
_apply_enhancements_NewFirst(f, d, project_dir, enhancements) ==
    IF enhancements.type = "dict"
    THEN ApplyField(ApplyField(Tree(f, d), project_dir, enhancements.new, "new"),
                    project_dir, enhancements.mods, "mod")
    ELSE IF enhancements.type = "list" THEN Tree(f, d)
    ELSE [Tree(f, d) EXCEPT !.err = TRUE]

\* lines 535-557: one try block around both loops; the first exception ends
\* the application and is printed, never re-raised
_apply_enhancements(f, d, project_dir, enhancements) ==
    IF enhancements.type = "dict"
    THEN ApplyField(ApplyField(Tree(f, d), project_dir, enhancements.mods, "mod"),
                    project_dir, enhancements.new, "new")
    ELSE IF enhancements.type = "list" THEN Tree(f, d)
    ELSE [Tree(f, d) EXCEPT !.err = TRUE]

(***************************************************************************)
(* The project on disk                                                     *)
(***************************************************************************)
FileMain == Join(ProjectDir, KeyMain)

FileReadme == <<"proj", "README.md">>

FileSub == Join(ProjectDir, KeySub)

FileEvil == Join(ProjectDir, KeyEvil)

BaseDirs == {<<>>, ProjectDir}

SubDir == Parent(FileSub)

BaseFs == [x \in {FileMain, FileReadme} |-> IF x = FileMain THEN <<"o">> ELSE <<"r">>]

\* the project as generated, with or without a package directory
InitTrees ==
    { Tree(BaseFs, BaseDirs),
      Tree(WriteText(BaseFs, FileSub, <<"o">>), BaseDirs \cup {SubDir}) }

(***************************************************************************)
(* ProjectAnalysis, lines 30-36: every field is optional and None when the *)
(* document does not have it                                               *)
(***************************************************************************)
\* lists: features, endpoints and external_services are lists (not None);
\* redis: "redis" is one of the external services
Descriptor(framework, database, auth_type, lists, redis) ==
    [framework |-> framework, database |-> database, auth_type |-> auth_type,
     lists |-> lists, redis |-> redis]

NoneDescriptor == Descriptor("None", "None", "None", FALSE, FALSE)

(***************************************************************************)
(* Change-sets handed to _apply_enhancements                               *)
(***************************************************************************)
Entries(keys) == {Entry(k, v) : k \in keys, v \in Values}

\* a JSON object has one value per key, in document order
Mappings(keys, n) ==
    UNION { { m \in [1..k -> Entries(keys)] :
                \A i, j \in 1..k : i # j => m[i].key # m[j].key } : k \in 0..n }

Fields(keys, n) == {NoField, NonMapField} \cup {MapField(m) : m \in Mappings(keys, n)}

\* a parsed JSON value as the service uses it: its Python type, its other
\* top-level keys, the two mappings, and the report fields it carries
EmptyDict ==
    [type |-> "dict", keys |-> {}, mods |-> NoField, new |-> NoField,
     changes_summary |-> "", report |-> "none", raw |-> <<>>,
     descriptor |-> NoneDescriptor]

ChangeSet(mods, new) == [EmptyDict EXCEPT !.mods = mods, !.new = new]


NoCall == [phase |-> "none"]

NoResp == [phase |-> "none"]

\* the event loop of the server process with no request in it
NoLoop == [running |-> 0, reqs |-> <<>>]

(***************************************************************************)
(* SpecApply: _apply_enhancements on a drawn project and change-set        *)
(***************************************************************************)
InitApply ==
    /\ \E t \in InitTrees : fs = t.fs /\ dirs = t.dirs
    /\ \E m \in Fields(ModKeys, MaxMods), n \in Fields(NewKeys, MaxNew) :
         call = [phase |-> "input", project_dir |-> ProjectDir,
                 enhancements |-> ChangeSet(m, n),
                 fs0 |-> fs, dirs0 |-> dirs, writes |-> <<>>, err |-> FALSE]
    /\ resp = NoResp
    /\ loop = NoLoop
    /\ bg = <<>>

ApplyEnhancements ==
    /\ call.phase = "input"
    /\ LET r == _apply_enhancements(fs, dirs, call.project_dir, call.enhancements)
       IN  /\ fs' = r.fs
           /\ dirs' = r.dirs
           /\ call' = [call EXCEPT !.phase = "applied", !.writes = r.writes, !.err = r.err]
    /\ UNCHANGED <<resp, loop, bg>>

NextApply == ApplyEnhancements

SpecApply == InitApply /\ [][NextApply]_vars

(***************************************************************************)
(* The text oracle (model.generate_content) and json.loads                 *)
(***************************************************************************)
\* the backtick is written ' in the texts of this module
Tick == "'"

Fence == <<Tick, Tick, Tick>>

FenceJson == Fence \o <<"j", "s", "o", "n">>

StartsWith(text, prefix) == IsPrefix(prefix, text)

\* text[a:-b]
Slice(text, a, b) == SubSeq(text, a + 1, Len(text) - b)

\* text[:n]
Prefix(text, n) == SubSeq(text, 1, IF Len(text) < n THEN Len(text) ELSE n)

RawResponseLen == 500

DocNames ==
    {"report", "report_missing", "report_badtype",
     "cs_ok", "cs_nonstr", "cs_nonmap", "cs_newnonmap"}

\* the descriptors the oracle answers the classification with
DescriptorNames == {"d_pg", "d_sparse", "d_flask", "d_django"}

DescriptorKeys ==
    {"framework", "database", "features", "endpoints", "auth_type",
     "external_services"}

ReportKeys ==
    {"current_structure", "identified_issues", "improvement_suggestions",
     "complexity_score"}

\* the JSON objects the oracle answers with; the interior of an object is one
\* symbol of the text
Doc(d) ==
    CASE d = "report" ->
           [EmptyDict EXCEPT !.keys = ReportKeys, !.report = "typed"]
      [] d = "report_missing" ->
           [EmptyDict EXCEPT !.keys = ReportKeys \ {"complexity_score"},
                             !.report = "typed"]
      [] d = "report_badtype" ->
           [EmptyDict EXCEPT !.keys = ReportKeys, !.report = "mistyped"]
      [] d = "cs_ok" ->
           [EmptyDict EXCEPT
              !.keys = {"changes_summary"}, !.changes_summary = "health added",
              !.mods = MapField(<<Entry(KeyMain, Str(<<" ", "b">>))>>),
              !.new = MapField(<<Entry(KeySub, Str(<<"a">>))>>)]
      [] d = "cs_nonstr" ->
           [EmptyDict EXCEPT
              !.keys = {"changes_summary"}, !.changes_summary = "health added",
              !.mods = MapField(<<Entry(KeyMain, Str(<<"a">>)), Entry(KeySub, Num)>>)]
      [] d = "cs_nonmap" ->
           [EmptyDict EXCEPT
              !.keys = {"changes_summary"}, !.changes_summary = "health added",
              !.mods = NonMapField,
              !.new = MapField(<<Entry(KeyMain, Str(<<"a">>))>>)]
      [] d = "cs_newnonmap" ->
           [EmptyDict EXCEPT
              !.keys = {"changes_summary"}, !.changes_summary = "health added",
              !.mods = MapField(<<Entry(KeyMain, Str(<<"a">>))>>),
              !.new = NonMapField]
      [] d = "d_pg" ->
           [EmptyDict EXCEPT
              !.keys = DescriptorKeys,
              !.descriptor = Descriptor("fastapi", "postgresql", "jwt", TRUE, TRUE)]
      [] d = "d_sparse" ->
           [EmptyDict EXCEPT
              !.keys = {"framework"},
              !.descriptor = Descriptor("fastapi", "None", "None", FALSE, FALSE)]
      [] d = "d_flask" ->
           [EmptyDict EXCEPT
              !.keys = DescriptorKeys,
              !.descriptor = Descriptor("flask", "sqlite", "none", TRUE, FALSE)]
      [] d = "d_django" ->
           [EmptyDict EXCEPT
              !.keys = DescriptorKeys,
              !.descriptor = Descriptor("django", "postgresql", "session", TRUE, FALSE)]

JsonText(d) == <<"{", d, "}">>

\* a run of opening brackets longer than the interpreter's recursion limit,
\* one symbol of the text
DeepText == <<"[[...">>

\* json.loads: surrounding whitespace is allowed; anything that is no JSON
\* document raises JSONDecodeError, and arrays nested deeper than the
\* recursion limit raise RecursionError, which is no JSONDecodeError
json_loads(text) ==
    LET t == Strip(text)
    IN  IF Len(t) = 3 /\ t[1] = "{" /\ t[3] = "}"
           /\ t[2] \in DocNames \cup DescriptorNames
        THEN [ok |-> TRUE, error |-> "none", value |-> Doc(t[2])]
        ELSE IF t = <<"[", "]">>
        THEN [ok |-> TRUE, error |-> "none",
              value |-> [EmptyDict EXCEPT !.type = "list"]]
        ELSE IF t = <<"5">>
        THEN [ok |-> TRUE, error |-> "none",
              value |-> [EmptyDict EXCEPT !.type = "int"]]
        ELSE IF StartsWith(t, DeepText)
        THEN [ok |-> FALSE, error |-> "RecursionError", value |-> EmptyDict]
        ELSE [ok |-> FALSE, error |-> "JSONDecodeError", value |-> EmptyDict]

\* lines 572: {"error": "Failed to parse response", "raw_response": text[:500]}
ParseFailure(text) ==
    [EmptyDict EXCEPT !.keys = {"error", "raw_response"},
                      !.raw = Prefix(text, RawResponseLen)]

\* the cleaning without the branch for the json tag
CleanText_NoJsonBranch(response_text) ==
    LET text == Strip(response_text)
    IN  IF StartsWith(text, Fence) THEN Slice(text, 3, 3) ELSE text

\* lines 561-566: the text handed to json.loads
CleanText(response_text) ==
    LET text == Strip(response_text)
    IN  IF StartsWith(text, FenceJson) THEN Slice(text, 7, 3)
        ELSE IF StartsWith(text, Fence) THEN Slice(text, 3, 3)
        ELSE text

\* lines 567-572: except json.JSONDecodeError catches the decode error only,
\* any other exception of json.loads leaves the method
CleanRaises(response_text) ==
    json_loads(CleanText(response_text)).error \notin {"none", "JSONDecodeError"}

\* EnhancementService._clean_json_response, lines 559-572: the value it
\* returns when it returns
_clean_json_response(response_text) ==
    LET text == CleanText(response_text)
        parsed == json_loads(text)
    IN  IF parsed.ok THEN parsed.value ELSE ParseFailure(text)

\* what one call of generate_content gives: an exception or a text
OracleRaises == [raised |-> TRUE, text |-> <<>>]

OracleSays(text) == [raised |-> FALSE, text |-> text]

OracleTexts ==
    {JsonText(d) : d \in DocNames}
    \cup { FenceJson \o <<"\n">> \o JsonText("report") \o <<"\n">> \o Fence,
           FenceJson \o <<"\n">> \o JsonText("cs_ok") \o <<"\n">> \o Fence,
           Fence \o <<"\n">> \o JsonText("cs_ok") \o <<"\n">> \o Fence \o <<"\n">>,
           FenceJson \o <<"\n">> \o JsonText("cs_ok"),
           <<"[", "]">>, <<"5">>,
           <<"s", "o", "n">>, DeepText }

OracleOutcomes == {OracleRaises} \cup {OracleSays(t) : t \in OracleTexts}

(***************************************************************************)
(* SpecNorm: _clean_json_response on a drawn text                          *)
(***************************************************************************)
TagJson == <<"j", "s", "o", "n">>

Tags ==
    {<<>>, TagJson, <<"p", "y", "t", "h", "o", "n">>, <<"J", "S", "O", "N">>,
     <<"j", "s", "o", "n", "c">>}

Inners ==
    {JsonText(d) : d \in DocNames}
    \cup {<<"[", "]">>, <<"5">>, <<"s", "o", "n">>, DeepText}

\* a text that is no JSON and is longer than the raw_response cut
LongGarbage == [i \in 1..(RawResponseLen + 3) |-> "x"]

\* opening fence, tag, inner text, closing fence when closed
FencedText(lead, tag, sep, inner, closed, trail) ==
    lead \o Fence \o tag \o sep \o inner \o sep
         \o (IF closed THEN Fence ELSE <<>>) \o trail

NormInput(shape, tag, inner, closed, text) ==
    [phase |-> "input", shape |-> shape, tag |-> tag, inner |-> inner,
     closed |-> closed, text |-> text, raised |-> FALSE, value |-> EmptyDict]

NormInputs ==
    {NormInput("fenced", tag, inner, closed,
               FencedText(ws, tag, sep, inner, closed, ws)) :
       tag \in Tags, inner \in Inners, closed \in BOOLEAN,
       sep \in {<<>>, <<"\n">>}, ws \in {<<>>, <<" ">>}}
    \cup {NormInput("bare", <<>>, inner, FALSE, ws \o inner \o ws) :
            inner \in Inners, ws \in {<<>>, <<"\n">>}}
    \cup {NormInput("bare", <<>>, t, FALSE, t) :
            t \in {<<>>, <<Tick>>, <<Tick, Tick>>, Fence, Fence \o <<"j">>,
                   Fence \o <<"j", "s">>, FenceJson, FenceJson \o <<Tick>>,
                   Fence \o Fence, LongGarbage}}

InitNorm ==
    /\ fs = BaseFs
    /\ dirs = BaseDirs
    /\ call \in NormInputs
    /\ resp = NoResp
    /\ loop = NoLoop
    /\ bg = <<>>

CleanJsonResponse ==
    /\ call.phase = "input"
    /\ call' = [call EXCEPT
                  !.phase = "cleaned",
                  !.raised = CleanRaises(call.text),
                  !.value = IF CleanRaises(call.text) THEN EmptyDict
                            ELSE _clean_json_response(call.text)]
    /\ UNCHANGED <<fs, dirs, resp, loop, bg>>

NextNorm == CleanJsonResponse

SpecNorm == InitNorm /\ [][NextNorm]_vars

(***************************************************************************)
(* EnhancementService._read_project_files, lines 508-533                   *)
(***************************************************************************)
Ext(name) ==
    CASE name \in {"main.py", "new.py", "x.py", "evil.py", "lib.py",
                   "venv_utils.py"} -> "py"
      [] name \in {"README.md", "notes.md"} -> "md"
      [] OTHER -> ""

\* the names of this module that have "venv" or "__pycache__" as a substring
ContainsMarker(name) == name \in {"venv", "__pycache__", "myvenv", "venv_utils.py"}

\* a test for the bytecode cache only
HasMarker_PycacheOnly(file) == \E i \in 1..Len(file) : file[i] = "__pycache__"

\* line 517: "venv" in str(file_path) or "__pycache__" in str(file_path), a
\* substring test on the whole path, the project directory included
HasMarker(file) == \E i \in 1..Len(file) : ContainsMarker(file[i])

\* line 525: the patterns of the second loop, matched against the name
MatchesTop(name) ==
    Ext(name) \in {"txt", "md", "yml", "yaml"} \/ name = "Dockerfile"

PathExists(f, d, p) == p \in d \/ p \in DOMAIN f

_read_project_files(f, d, project_path) ==
    IF ~PathExists(f, d, project_path) THEN {}
    ELSE { x \in DOMAIN f :
             /\ InsideRoot(project_path, x)
             /\ \/ Ext(x[Len(x)]) = "py" /\ ~HasMarker(x)
                \/ Len(x) = Len(project_path) + 1 /\ MatchesTop(x[Len(x)]) }

(***************************************************************************)
(* SpecRead: _read_project_files on a drawn directory tree                 *)
(***************************************************************************)
VenvProjectDir == <<"myvenv">>

ReadPaths == {ProjectDir, MissingDir, VenvProjectDir}

ReadUniverse ==
    {FileMain, FileReadme, FileSub,
     <<"proj", "Dockerfile">>, <<"proj", "venv_utils.py">>,
     <<"proj", "venv", "lib.py">>, <<"proj", "sub", "__pycache__", "new.py">>,
     <<"proj", "myvenv", "x.py">>, <<"proj", "docs", "notes.md">>,
     <<"myvenv", "main.py">>, <<"myvenv", "README.md">>}

\* the directories a set of files lies in
DirsOf(files) == UNION {Ancestors(Parent(x)) : x \in files} \cup {<<>>}

InitRead ==
    /\ \E files \in SUBSET ReadUniverse :
         /\ fs = [x \in files |-> <<"o">>]
         /\ dirs = DirsOf(files)
    /\ \E p \in ReadPaths :
         call = [phase |-> "input", project_path |-> p, files |-> {}]
    /\ resp = NoResp
    /\ loop = NoLoop
    /\ bg = <<>>

ReadProjectFiles ==
    /\ call.phase = "input"
    /\ call' = [call EXCEPT !.phase = "read",
                            !.files = _read_project_files(fs, dirs, call.project_path)]
    /\ UNCHANGED <<fs, dirs, resp, loop, bg>>

NextRead == ReadProjectFiles

SpecRead == InitRead /\ [][NextRead]_vars

(***************************************************************************)
(* EnhancementService.analyze_existing_code, lines 421-470                 *)
(***************************************************************************)
Report(count, components, pattern, db, issues, suggestions, score) ==
    [files_count |-> count, main_components |-> components,
     architecture_pattern |-> pattern, database_used |-> db,
     identified_issues |-> issues, improvement_suggestions |-> suggestions,
     complexity_score |-> score]

\* lines 460-470
FallbackAnalysis(project_files) ==
    Report(Cardinality(project_files), <<"main.py", "models.py">>, "FastAPI MVC",
           "SQLite", <<"No specific issues found">>,
           <<"Add error handling", "Add logging">>, 5)

\* the report the oracle writes when it answers as asked
OracleReport ==
    Report(9, <<"app.py">>, "layered", "PostgreSQL", <<"no tests">>,
           <<"add tests">>, 8)

\* a validation that does not require the four fields
Validates_NoRequired(result) == result.type = "dict" /\ result.report = "typed"

\* CodeAnalysis(**result): result is a mapping with the four typed fields
Validates(result) ==
    result.type = "dict" /\ ReportKeys \subseteq result.keys /\ result.report = "typed"

\* the service method: the analysis and the trace of its effects
analyze_existing_code(f, d, project_path, oracle) ==
    LET project_files == _read_project_files(f, d, project_path)
        result == _clean_json_response(oracle.text)
    IN  [analysis |-> IF ~oracle.raised /\ ~CleanRaises(oracle.text) /\ Validates(result)
                      THEN OracleReport
                      ELSE FallbackAnalysis(project_files),
         files |-> project_files,
         trace |-> <<"read", "oracle">>]

(***************************************************************************)
(* EnhancementService.generate_enhancement, lines 472-506                  *)
(***************************************************************************)
\* line 506
FailureObject ==
    [EmptyDict EXCEPT !.keys = {"error", "changes_summary"},
                      !.changes_summary = "Failed to generate enhancements"]

RECURSIVE WriteTrace(_)
WriteTrace(writes) ==
    IF writes = <<>> THEN <<>> ELSE <<"write">> \o WriteTrace(Tail(writes))

\* the planner working from files handed to it, without a read of its own
generate_enhancement_NoRead(f, d, project_path, oracle) ==
    LET result == _clean_json_response(oracle.text)
        applied == _apply_enhancements(f, d, project_path, result)
    IN  IF oracle.raised \/ CleanRaises(oracle.text)
        THEN [result |-> FailureObject, fs |-> f, dirs |-> d, writes |-> <<>>,
              trace |-> <<"oracle">>]
        ELSE [result |-> result, fs |-> applied.fs, dirs |-> applied.dirs,
              writes |-> applied.writes,
              trace |-> <<"oracle", "apply">> \o WriteTrace(applied.writes)]

\* lines 472-506: read, oracle call, cleaning, application; an exception of
\* the oracle call or of the cleaning goes to the except clause of line 505,
\* past the application
generate_enhancement(f, d, project_path, oracle) ==
    LET existing_files == _read_project_files(f, d, project_path)
        result == _clean_json_response(oracle.text)
        applied == _apply_enhancements(f, d, project_path, result)
    IN  IF oracle.raised \/ CleanRaises(oracle.text)
        THEN [result |-> FailureObject, fs |-> f, dirs |-> d, writes |-> <<>>,
              trace |-> <<"read", "oracle">>]
        ELSE [result |-> result, fs |-> applied.fs, dirs |-> applied.dirs,
              writes |-> applied.writes,
              trace |-> <<"read", "oracle", "apply">> \o WriteTrace(applied.writes)]

(***************************************************************************)
(* The request handlers, lines 716-751                                     *)
(***************************************************************************)
NoAnalysis == Report(0, <<>>, "", "", <<>>, <<>>, 0)

\* what the try block of a handler ends with: a returned body, or an
\* exception (the handler's own HTTPException included)
Returned(analysis, enhancements, oracles, trace, writes, f, d) ==
    [raised |-> FALSE, status_code |-> 200, detail |-> "", analysis |-> analysis,
     enhancements |-> enhancements, oracles |-> oracles, trace |-> trace,
     writes |-> writes,
     fs |-> f, dirs |-> d]

\* raise HTTPException(status_code=404, detail="Project path not found")
RaisedNotFound(trace, f, d) ==
    [raised |-> TRUE, status_code |-> 404, detail |-> "Project path not found",
     analysis |-> NoAnalysis, enhancements |-> EmptyDict, oracles |-> <<>>,
     trace |-> trace, writes |-> <<>>, fs |-> f, dirs |-> d]

\* except Exception as e: raise HTTPException(status_code=500, detail=str(e))
\* HTTPException is an Exception, so the 404 raised in the try block is
\* caught here as well
ExceptException(r) ==
    IF r.raised THEN [r EXCEPT !.status_code = 500, !.detail = "404: " \o r.detail]
    ELSE r

\* POST /analyze-existing, lines 716-726
analyze_existing_handler(f, d, project_path, oracle) ==
    ExceptException(
      IF ~PathExists(f, d, project_path)
      THEN RaisedNotFound(<<"exists">>, f, d)
      ELSE LET a == analyze_existing_code(f, d, project_path, oracle)
           IN  Returned(a.analysis, EmptyDict, <<oracle>>, <<"exists">> \o a.trace,
                        <<>>, f, d))

\* the handler with the existence check after the pipeline instead of before
enhance_application_CheckLate(f, d, project_path, oracle1, oracle2) ==
    LET a == analyze_existing_code(f, d, project_path, oracle1)
        g == generate_enhancement(f, d, project_path, oracle2)
    IN  ExceptException(
          IF ~PathExists(f, d, project_path)
          THEN RaisedNotFound(<<"exists">> \o a.trace \o g.trace, g.fs, g.dirs)
          ELSE Returned(a.analysis, g.result, <<oracle1, oracle2>>,
                        <<"exists">> \o a.trace \o g.trace, g.writes, g.fs, g.dirs))

\* POST /enhance-app, lines 728-751
enhance_application(f, d, project_path, oracle1, oracle2) ==
    ExceptException(
      IF ~PathExists(f, d, project_path)
      THEN RaisedNotFound(<<"exists">>, f, d)
      ELSE LET a == analyze_existing_code(f, d, project_path, oracle1)
               g == generate_enhancement(f, d, project_path, oracle2)
           IN  Returned(a.analysis, g.result, <<oracle1, oracle2>>,
                        <<"exists">> \o a.trace \o g.trace, g.writes, g.fs, g.dirs))

\* the response as the caller receives it, with the request it answers and
\* the tree the request found
Response(endpoint, project_path, r) ==
    [phase |-> "done", endpoint |-> endpoint, project_path |-> project_path,
     status_code |-> r.status_code, detail |-> r.detail,
     status |-> IF r.status_code = 200 THEN "success" ELSE "error",
     analysis |-> r.analysis, enhancements |-> r.enhancements,
     oracles |-> r.oracles, trace |-> r.trace,
     writes |-> r.writes, fs0 |-> fs, dirs0 |-> dirs]

Paths == {ProjectDir, MissingDir}

AnalyzeExisting(project_path, oracle) ==
    LET r == analyze_existing_handler(fs, dirs, project_path, oracle)
    IN  /\ resp' = Response("/analyze-existing", project_path, r)
        /\ UNCHANGED <<fs, dirs, call, loop, bg>>

EnhanceApp(project_path, oracle1, oracle2) ==
    LET r == enhance_application(fs, dirs, project_path, oracle1, oracle2)
    IN  /\ resp' = Response("/enhance-app", project_path, r)
        /\ fs' = r.fs
        /\ dirs' = r.dirs
        /\ UNCHANGED <<call, loop, bg>>

Init ==
    /\ \E t \in InitTrees : fs = t.fs /\ dirs = t.dirs
    /\ call = NoCall
    /\ resp = NoResp
    /\ loop = NoLoop
    /\ bg = <<>>

Next ==
    \/ \E p \in Paths, o \in OracleOutcomes : AnalyzeExisting(p, o)
    \/ \E p \in Paths, o1 \in OracleOutcomes, o2 \in OracleOutcomes : EnhanceApp(p, o1, o2)

Spec == Init /\ [][Next]_vars

(***************************************************************************)
(* SpecLoop: requests to /enhance-app in the event loop of the one server  *)
(* process (uvicorn.run(app), line 756).  A handler is a coroutine; the    *)
(* loop runs it until it suspends at an await of something that is not     *)
(* ready, and only then runs another.  Every await of the handler is on a  *)
(* coroutine of the service that itself never suspends: read_text,         *)
(* write_text and model.generate_content are blocking calls.               *)
(***************************************************************************)
MaxRequests == 2

Requests == 1..MaxRequests

OtherDir == <<"other">>

LoopPaths == {ProjectDir, OtherDir, MissingDir}

\* two generated projects
LoopFs ==
    [x \in {FileMain, FileReadme, <<"other", "main.py">>} |->
       IF x = FileReadme THEN <<"r">> ELSE <<"o">>]

LoopDirs == {<<>>, ProjectDir, OtherDir}

PlanOutcomes ==
    {OracleRaises, OracleSays(JsonText("cs_ok")), OracleSays(JsonText("cs_nonstr"))}

Request(project_path) ==
    [project_path |-> project_path, pc |-> "received", files |-> {},
     enhancements |-> EmptyDict, status_code |-> 0]

Arrived(r) == r \in 1..Len(loop.reqs)

\* request r is the task the loop is running, at the given place
At(r, pc) == Arrived(r) /\ loop.running = r /\ loop.reqs[r].pc = pc

Goto(r, pc) == loop' = [loop EXCEPT !.reqs[r].pc = pc]

InitLoop ==
    /\ fs = LoopFs
    /\ dirs = LoopDirs
    /\ call = NoCall
    /\ resp = NoResp
    /\ loop = NoLoop
    /\ bg = <<>>

\* a request is received and its handler is made a task of the loop
Arrive(project_path) ==
    /\ Len(loop.reqs) < MaxRequests
    /\ loop' = [loop EXCEPT !.reqs = Append(@, Request(project_path))]
    /\ UNCHANGED <<fs, dirs, call, resp, bg>>

\* the loop, running no task, starts the handler: lines 731-733
Begin(r) ==
    /\ Arrived(r) /\ loop.running = 0 /\ loop.reqs[r].pc = "received"
    /\ loop' = [loop EXCEPT
                  !.running = r,
                  !.reqs[r].pc =
                     IF PathExists(fs, dirs, loop.reqs[r].project_path)
                     THEN "read1" ELSE "respond",
                  !.reqs[r].status_code =
                     IF PathExists(fs, dirs, loop.reqs[r].project_path)
                     THEN 0 ELSE 500]
    /\ UNCHANGED <<fs, dirs, call, resp, bg>>

\* line 425
Read1(r) ==
    /\ At(r, "read1")
    /\ loop' = [loop EXCEPT
                  !.reqs[r].pc = "oracle1",
                  !.reqs[r].files =
                     _read_project_files(fs, dirs, loop.reqs[r].project_path)]
    /\ UNCHANGED <<fs, dirs, call, resp, bg>>

\* line 455, the blocking round-trip of the analysis
Oracle1(r) ==
    /\ At(r, "oracle1")
    /\ Goto(r, "read2")
    /\ UNCHANGED <<fs, dirs, call, resp, bg>>

\* line 476
Read2(r) ==
    /\ At(r, "read2")
    /\ loop' = [loop EXCEPT
                  !.reqs[r].pc = "oracle2",
                  !.reqs[r].files =
                     _read_project_files(fs, dirs, loop.reqs[r].project_path)]
    /\ UNCHANGED <<fs, dirs, call, resp, bg>>

\* lines 499-500, the blocking round-trip of the planning
Oracle2(r, oracle) ==
    /\ At(r, "oracle2")
    /\ loop' = [loop EXCEPT
                  !.reqs[r].pc = IF oracle.raised THEN "respond" ELSE "apply",
                  !.reqs[r].enhancements =
                     IF oracle.raised THEN FailureObject
                     ELSE _clean_json_response(oracle.text)]
    /\ UNCHANGED <<fs, dirs, call, resp, bg>>

\* line 503
Apply(r) ==
    /\ At(r, "apply")
    /\ LET a == _apply_enhancements(fs, dirs, loop.reqs[r].project_path,
                                    loop.reqs[r].enhancements)
       IN  fs' = a.fs /\ dirs' = a.dirs
    /\ Goto(r, "respond")
    /\ UNCHANGED <<call, resp, bg>>

\* lines 745-751: the handler returns or raises, the task ends and the loop
\* is free for the next task
Respond(r) ==
    /\ At(r, "respond")
    /\ loop' = [loop EXCEPT
                  !.running = 0,
                  !.reqs[r].pc = "done",
                  !.reqs[r].status_code = IF @ = 0 THEN 200 ELSE @]
    /\ UNCHANGED <<fs, dirs, call, resp, bg>>

\* request r takes its next step
Step(r) ==
    \/ Begin(r) \/ Read1(r) \/ Oracle1(r) \/ Read2(r)
    \/ (\E o \in PlanOutcomes : Oracle2(r, o))
    \/ Apply(r) \/ Respond(r)

NextLoop ==
    \/ \E p \in LoopPaths : Arrive(p)
    \/ \E r \in Requests : Begin(r)
    \/ \E r \in Requests : Read1(r)
    \/ \E r \in Requests : Oracle1(r)
    \/ \E r \in Requests : Read2(r)
    \/ \E r \in Requests, o \in PlanOutcomes : Oracle2(r, o)
    \/ \E r \in Requests : Apply(r)
    \/ \E r \in Requests : Respond(r)

SpecLoop == InitLoop /\ [][NextLoop]_vars

(***************************************************************************)
(* AppBuilderService, lines 49-415                                         *)
(***************************************************************************)
\* lines 94-101
FallbackDescriptor == Descriptor("fastapi", "sqlite", "none", TRUE, FALSE)

\* lines 54-101: any exception of the call, of json.loads or of
\* ProjectAnalysis(**result) gives the fallback descriptor
analyze_prompt(oracle) ==
    LET parsed == json_loads(CleanText(oracle.text))
    IN  IF oracle.raised \/ ~parsed.ok \/ parsed.value.type # "dict"
        THEN FallbackDescriptor
        ELSE parsed.value.descriptor

\* the scaffold without the data-access layer
Artifacts_NoCrud ==
    <<"main.py", "models.py", "database.py", "schemas.py",
      "requirements.txt", "Dockerfile", "docker-compose.yml", ".env.example",
      "README.md">>

\* lines 119-144, in the order of the assignments to files
Artifacts ==
    <<"main.py", "models.py", "database.py", "schemas.py", "crud.py",
      "requirements.txt", "Dockerfile", "docker-compose.yml", ".env.example",
      "README.md">>

\* the generators that call model.generate_content
OracleArtifacts ==
    {"main.py", "models.py", "database.py", "schemas.py", "crud.py", "README.md"}

FencePython == Fence \o <<"p", "y", "t", "h", "o", "n">>

\* lines 177-183
CleanCode(text) ==
    LET code == Strip(text)
    IN  IF StartsWith(code, FencePython) THEN Slice(code, 9, 3)
        ELSE IF StartsWith(code, Fence) THEN Slice(code, 3, 3)
        ELSE code

\* lines 313-340: one line of the manifest per element
generate_requirements(analysis) ==
    <<"fastapi", "uvicorn", "sqlalchemy", "alembic", "pydantic", "python-dotenv">>
    \o (IF analysis.database = "postgresql" THEN <<"psycopg2-binary">>
        ELSE IF analysis.database = "mysql" THEN <<"pymysql">> ELSE <<>>)
    \o (IF analysis.auth_type = "jwt"
        THEN <<"python-jose", "passlib", "python-multipart">> ELSE <<>>)
    \o (IF analysis.redis THEN <<"redis">> ELSE <<>>)

\* lines 342-357
generate_dockerfile(analysis) == <<"FROM python:3.11-slim">>

\* lines 359-398
generate_docker_compose(analysis, project_name) ==
    IF analysis.database = "postgresql"
    THEN <<"web", "DATABASE_URL", project_name, "db", "POSTGRES_DB", project_name>>
    ELSE <<"web">>

\* lines 400-415
generate_env_template(analysis) ==
    <<"SECRET_KEY", "DATABASE_URL", analysis.database>>
    \o (IF analysis.auth_type = "jwt" THEN <<"JWT_SECRET_KEY">> ELSE <<>>)
    \o (IF analysis.redis THEN <<"REDIS_URL">> ELSE <<>>)

Template(artifact, analysis, project_name) ==
    CASE artifact = "requirements.txt" -> generate_requirements(analysis)
      [] artifact = "Dockerfile" -> generate_dockerfile(analysis)
      [] artifact = "docker-compose.yml" -> generate_docker_compose(analysis, project_name)
      [] artifact = ".env.example" -> generate_env_template(analysis)

\* building the text raises TypeError on a list field that is None:
\* ', '.join(analysis.endpoints) in the prompts (lines 157-159, 190, 242,
\* 267, 295), "redis" in analysis.external_services (lines 337, 412)
BuildRaises(artifact, analysis) ==
    /\ ~analysis.lists
    /\ artifact \notin {"database.py", "Dockerfile", "docker-compose.yml"}

Event(op, what) == [op |-> op, what |-> what]

\* one generator: the text it returns or the exception it raises, and the
\* trace of its effects
Generate(artifact, analysis, project_name, oracle) ==
    IF BuildRaises(artifact, analysis)
    THEN [raised |-> TRUE, content |-> <<>>, trace |-> <<>>]
    ELSE IF artifact \notin OracleArtifacts
    THEN [raised |-> FALSE, content |-> Template(artifact, analysis, project_name),
          trace |-> <<Event("template", artifact)>>]
    ELSE IF oracle.raised
    THEN [raised |-> TRUE, content |-> <<>>, trace |-> <<Event("oracle", artifact)>>]
    ELSE [raised |-> FALSE,
          content |-> IF artifact = "README.md" THEN Strip(oracle.text)
                      ELSE CleanCode(oracle.text),
          trace |-> <<Event("oracle", artifact)>>]

NoFiles == [raised |-> FALSE, status_code |-> 0, files |-> <<>>, trace |-> <<>>]

RECURSIVE GenerateFrom(_, _, _, _, _)
\* the generators from the i-th on; an exception ends the scaffold
GenerateFrom(st, analysis, project_name, oracles, i) ==
    IF i > Len(Artifacts) THEN st
    ELSE LET artifact == Artifacts[i]
             g == Generate(artifact, analysis, project_name,
                           IF artifact \in OracleArtifacts THEN oracles[artifact]
                           ELSE OracleRaises)
         IN  IF g.raised
             THEN [st EXCEPT !.raised = TRUE, !.status_code = 500,
                             !.trace = @ \o g.trace]
             ELSE GenerateFrom(
                    [st EXCEPT !.files = Append(@, [name |-> artifact,
                                                    content |-> g.content]),
                               !.trace = @ \o g.trace],
                    analysis, project_name, oracles, i + 1)

\* lines 113-146
generate_fastapi_project(analysis, project_name, oracles) ==
    GenerateFrom(NoFiles, analysis, project_name, oracles, 1)

\* a flask scaffold that gives an empty file set instead of raising
generate_project_structure_FlaskEmpty(analysis, project_name, oracles) ==
    IF analysis.framework = "fastapi"
    THEN GenerateFrom(NoFiles, analysis, project_name, oracles, 1)
    ELSE IF analysis.framework = "flask" THEN NoFiles
    ELSE [NoFiles EXCEPT !.raised = TRUE, !.status_code = 400]

\* lines 103-111: generate_flask_project is defined nowhere, the attribute
\* lookup raises AttributeError; every other framework raises
\* HTTPException(status_code=400)
generate_project_structure(analysis, project_name, oracles) ==
    IF analysis.framework = "fastapi"
    THEN generate_fastapi_project(analysis, project_name, oracles)
    ELSE IF analysis.framework = "flask"
    THEN [NoFiles EXCEPT !.raised = TRUE, !.status_code = 500]
    ELSE [NoFiles EXCEPT !.raised = TRUE, !.status_code = 400]

(***************************************************************************)
(* POST /generate, lines 589-624, and the provisioning task, lines 626-696 *)
(***************************************************************************)
\* line 51
OutputBase == <<"generated_apps">>

\* line 597, the name made of the time of the request
DefaultName == "generated_app_T"

RECURSIVE WriteFiles(_, _, _, _)
\* lines 607-610: parent.mkdir(parents=True, exist_ok=True), write_text
WriteFiles(st, project_path, files, i) ==
    IF i > Len(files) THEN st
    ELSE LET full_path == project_path \o <<files[i].name>>
         IN  IF ~CanMkdir(st.fs, st.dirs, Parent(full_path))
                \/ ~CanWrite(st.fs, Mkdir(st.dirs, Parent(full_path)), full_path)
             THEN [st EXCEPT !.raised = TRUE]
             ELSE WriteFiles(
                    [st EXCEPT !.fs = WriteText(@, full_path, files[i].content),
                               !.dirs = Mkdir(@, Parent(full_path)),
                               !.trace = Append(@, Event("write", files[i].name))],
                    project_path, files, i + 1)

\* the handler with the task added before the files are written
generate_app_ScheduleFirst(f, d, name, classify, oracles) ==
    LET analysis == analyze_prompt(classify)
        project_name == IF name = "" THEN DefaultName ELSE name
        g == generate_project_structure(analysis, project_name, oracles)
        project_path == OutputBase \o <<project_name>>
        t0 == <<Event("oracle", "classify")>> \o g.trace
        w == WriteFiles([raised |-> FALSE, fs |-> f, dirs |-> d \cup {project_path},
                         trace |-> t0 \o <<Event("mkdir", project_name),
                                           Event("add_task", project_name)>>],
                        project_path, g.files, 1)
    IN  [raised |-> g.raised \/ w.raised, raised_status |-> g.status_code,
         project_name |-> project_name, project_path |-> project_path,
         analysis |-> analysis, files |-> g.files,
         fs |-> IF g.raised THEN f ELSE w.fs,
         dirs |-> IF g.raised THEN d ELSE w.dirs,
         scheduled |-> ~g.raised,
         trace |-> IF g.raised THEN t0 ELSE w.trace]

\* the try block of generate_app, lines 592-621
generate_app(f, d, name, classify, oracles) ==
    LET analysis == analyze_prompt(classify)
        project_name == IF name = "" THEN DefaultName ELSE name
        g == generate_project_structure(analysis, project_name, oracles)
        project_path == OutputBase \o <<project_name>>
        t0 == <<Event("oracle", "classify")>> \o g.trace
        \* project_path.mkdir(exist_ok=True)
        mkdir_ok == project_path \in d
                    \/ (Parent(project_path) \in d /\ project_path \notin DOMAIN f)
        w == WriteFiles([raised |-> FALSE, fs |-> f, dirs |-> d \cup {project_path},
                         trace |-> Append(t0, Event("mkdir", project_name))],
                        project_path, g.files, 1)
        base == [raised |-> TRUE, raised_status |-> 500,
                 project_name |-> project_name, project_path |-> project_path,
                 analysis |-> analysis, files |-> g.files,
                 fs |-> f, dirs |-> d, scheduled |-> FALSE, trace |-> t0]
    IN  IF g.raised THEN [base EXCEPT !.raised_status = g.status_code]
        ELSE IF ~mkdir_ok THEN base
        ELSE IF w.raised
        THEN [base EXCEPT !.fs = w.fs, !.dirs = w.dirs, !.trace = w.trace]
        ELSE [base EXCEPT !.raised = FALSE, !.raised_status = 0,
                          !.fs = w.fs, !.dirs = w.dirs, !.scheduled = TRUE,
                          !.trace = Append(w.trace, Event("add_task", project_name))]

\* lines 615-624: the success body, or except Exception turning whatever
\* was raised, the HTTPException of status 400 included, into status 500;
\* kept with it, the answers the oracle had for the artifact prompts
GenerateResponse(r, oracles) ==
    [phase |-> "done", endpoint |-> "/generate", oracles |-> oracles,
     status_code |-> IF r.raised THEN 500 ELSE 200,
     raised_status |-> r.raised_status,
     status |-> IF r.raised THEN "error" ELSE "success",
     project_name |-> r.project_name, project_path |-> r.project_path,
     files_generated |-> IF r.raised THEN 0 ELSE Len(r.files),
     analysis |-> r.analysis, scheduled |-> r.scheduled, trace |-> r.trace]

Task(project_path) == [project_path |-> project_path, status |-> "scheduled"]

\* how one run of setup_project_environment ends; "raised": an exception
\* inside an except clause (a print that cannot be encoded) leaves the task
ProvisionOutcomes ==
    {"ok", "venv_failed", "python_missing", "pip_missing", "pip_failed", "raised"}

MaxGenerate == 1

ProjectNames == {"shop", ""}

CodeText == <<"c", "o", "d", "e">>

FencedCodeText == FencePython \o <<"\n">> \o CodeText \o <<"\n">> \o Fence

\* the answers to the artifact prompts: all given, bare or fenced, or one
\* call that raises
ArtifactOracles ==
    {[a \in OracleArtifacts |-> OracleSays(CodeText)],
     [a \in OracleArtifacts |-> OracleSays(FencedCodeText)]}
    \cup {[a \in OracleArtifacts |->
             IF a = bad THEN OracleRaises ELSE OracleSays(CodeText)] :
          bad \in OracleArtifacts}

ClassifyOutcomes ==
    {OracleRaises,
     OracleSays(FenceJson \o <<"\n">> \o JsonText("d_pg") \o <<"\n">> \o Fence),
     OracleSays(JsonText("d_sparse")), OracleSays(JsonText("d_flask")),
     OracleSays(JsonText("d_django")), OracleSays(<<"[", "]">>)}

\* generated_apps as the service made it (line 52), empty or with a regular
\* file in the place of a project directory
InitGenerate ==
    /\ \E files \in {{}, {OutputBase \o <<"shop">>}} : fs = [x \in files |-> <<"o">>]
    /\ dirs = {<<>>, OutputBase}
    /\ call = [phase |-> "generate", handled |-> 0]
    /\ resp = NoResp
    /\ loop = NoLoop
    /\ bg = <<>>

GenerateApp(name, classify, oracles) ==
    /\ call.handled < MaxGenerate
    /\ LET r == generate_app(fs, dirs, name, classify, oracles)
       IN  /\ fs' = r.fs
           /\ dirs' = r.dirs
           /\ resp' = GenerateResponse(r, oracles)
           /\ bg' = IF r.scheduled THEN Append(bg, Task(r.project_path)) ELSE bg
    /\ call' = [call EXCEPT !.handled = @ + 1]
    /\ UNCHANGED loop

\* one run of the background task; the response it was added to has been
\* sent, and what the task does or raises is printed on the server only
SetupProjectEnvironment(i, outcome) ==
    /\ i \in 1..Len(bg) /\ bg[i].status = "scheduled"
    /\ LET project_path == bg[i].project_path
           venv_path == project_path \o <<"venv">>
           pip_path == venv_path \o <<"bin", "pip">>
           run_bat == project_path \o <<"run.bat">>
       IN  CASE outcome \in {"venv_failed", "raised"} -> UNCHANGED <<fs, dirs>>
             [] outcome = "python_missing" ->
                  /\ fs' = IF CanWrite(fs, dirs, run_bat)
                           THEN WriteText(fs, run_bat, <<"@echo off">>) ELSE fs
                  /\ UNCHANGED dirs
             [] outcome = "pip_missing" ->
                  /\ dirs' = dirs \cup {venv_path}
                  /\ UNCHANGED fs
             [] outcome \in {"pip_failed", "ok"} ->
                  /\ dirs' = dirs \cup {venv_path, venv_path \o <<"bin">>}
                  /\ fs' = WriteText(fs, pip_path, <<"pip">>)
    /\ bg' = [bg EXCEPT ![i].status = outcome]
    /\ UNCHANGED <<call, resp, loop>>

NextGenerate ==
    \/ \E n \in ProjectNames, c \in ClassifyOutcomes, o \in ArtifactOracles :
         GenerateApp(n, c, o)
    \/ \E i \in 1..MaxGenerate, outcome \in ProvisionOutcomes :
         SetupProjectEnvironment(i, outcome)

SpecGenerate == InitGenerate /\ [][NextGenerate]_vars

(***************************************************************************)
(* Vocabulary of the ChangeApplier properties                              *)
(***************************************************************************)
Applied == call.phase = "applied"

ModItems == IF call.enhancements.mods.ismap THEN call.enhancements.mods.items ELSE <<>>

NewItems == IF call.enhancements.new.ismap THEN call.enhancements.new.items ELSE <<>>

ModFile(i) == Join(call.project_dir, ModItems[i].key)

NewFile(i) == Join(call.project_dir, NewItems[i].key)

Wrote(kind, i) ==
    \E n \in 1..Len(call.writes) : call.writes[n].kind = kind /\ call.writes[n].idx = i

\* the file is as it was before the call: same presence, same content
Same(file) ==
    /\ (file \in DOMAIN fs) = (file \in DOMAIN call.fs0)
    /\ file \in DOMAIN fs => fs[file] = call.fs0[file]

Holds(file, data) == file \in DOMAIN fs /\ fs[file] = data

AllFiles == DOMAIN fs \cup DOMAIN call.fs0

NonEmptyStr(v) == v.t = "str" /\ Len(v.s) >= 1

\* a string with at least one character that is not whitespace
NonBlankStr(v) == v.t = "str" /\ \E i \in 1..Len(v.s) : v.s[i] \notin {" ", "\n", "\t"}

\* an empty string, null or a non-string
EmptyOrNonStr(v) == v.t # "str" \/ v.s = <<>>

\* write_text of modification i can succeed on the tree as it was before the
\* call (the modifications loop creates no directory)
ModWritable(i) == CanWrite(call.fs0, call.dirs0, ModFile(i))

\* the first modification whose write raises, Len + 1 when none does
FirstModFailure ==
    LET bad == {i \in 1..Len(ModItems) : NonBlankStr(ModItems[i].val) /\ ~ModWritable(i)}
    IN  IF bad = {} THEN Len(ModItems) + 1
        ELSE CHOOSE i \in bad : \A j \in bad : i <= j

\* one modification and one new file on distinct paths inside the project
OneModOneNew ==
    /\ call.enhancements.mods.ismap /\ Len(ModItems) = 1
    /\ call.enhancements.new.ismap /\ Len(NewItems) = 1
    /\ ModFile(1) # NewFile(1)
    /\ InsideRoot(call.project_dir, ModFile(1))
    /\ InsideRoot(call.project_dir, NewFile(1))

ExactlyThoseTwo ==
    /\ Holds(ModFile(1), ModItems[1].val.s)
    /\ Holds(NewFile(1), NewItems[1].val.s)
    /\ \A f \in AllFiles \ {ModFile(1), NewFile(1)} :
         InsideRoot(call.project_dir, f) => Same(f)

\* both writes can be carried out: the modification's directory exists, and
\* no component of the new file's directory is a regular file
BothWritable ==
    /\ ModWritable(1)
    /\ NewFile(1) \notin call.dirs0
    /\ \A a \in Ancestors(Parent(NewFile(1))) :
         a \notin DOMAIN call.fs0 /\ a # ModFile(1)

\* C2 as stated, read in its favour (both writes can be carried out): one
\* modification and one new file, both non-empty strings on distinct paths
\* inside the project, leave exactly those two files with exactly the given
\* content and every other project file as it was.
C2_Original ==
    (Applied /\ OneModOneNew /\ BothWritable
       /\ NonEmptyStr(ModItems[1].val) /\ NonEmptyStr(NewItems[1].val))
    => ExactlyThoseTwo

\* C2 amended: when both values hold a non-whitespace character and both
\* writes can be carried out, exactly those two files hold exactly the given
\* content and every other file under the project root is as it was.
C2_Amended ==
    (Applied /\ OneModOneNew /\ BothWritable
       /\ NonBlankStr(ModItems[1].val) /\ NonBlankStr(NewItems[1].val))
    => ExactlyThoseTwo

\* a padded modification into main.py and a new file in a directory that the
\* call had to create
C2_Witness ==
    /\ Applied /\ OneModOneNew /\ BothWritable
    /\ ModItems[1] = Entry(KeyMain, Str(<<" ", "b">>))
    /\ NewItems[1] = Entry(KeySub, Str(<<"a">>))
    /\ SubDir \notin call.dirs0
    /\ Len(call.writes) = 2

\* C3: an entry of modifications or new_files whose value is an empty string,
\* null or a non-string is never written, and a file that only such entries
\* target is neither created, truncated nor changed.
C3_SkippedUntouched ==
    Applied =>
      /\ \A i \in 1..Len(ModItems) : EmptyOrNonStr(ModItems[i].val) => ~Wrote("mod", i)
      /\ \A i \in 1..Len(NewItems) : EmptyOrNonStr(NewItems[i].val) => ~Wrote("new", i)
      /\ \A f \in AllFiles \cup {ModFile(i) : i \in 1..Len(ModItems)}
                           \cup {NewFile(i) : i \in 1..Len(NewItems)} :
           ( /\ \A i \in 1..Len(ModItems) :
                  ModFile(i) = f => EmptyOrNonStr(ModItems[i].val)
             /\ \A i \in 1..Len(NewItems) :
                  NewFile(i) = f => EmptyOrNonStr(NewItems[i].val) )
           => Same(f)

\* an empty modification of main.py, a null one of sub/new.py and a null new
\* file, next to nothing else: the call ends and wrote nothing
C3_Witness ==
    /\ Applied
    /\ Len(ModItems) = 2 /\ Len(NewItems) = 1
    /\ ModItems[1] = Entry(KeyMain, Str(<<>>))
    /\ ModItems[2] = Entry(KeySub, Null)
    /\ NewItems[1] = Entry(KeySub, Null)
    /\ call.writes = <<>>
    /\ ~call.err

\* no later write of the call went to the file that modification i targets
NotRewritten(i) ==
    \A n \in 1..Len(call.writes) :
      call.writes[n].file = ModFile(i) =>
        call.writes[n].kind = "mod" /\ call.writes[n].idx <= i

\* C4 as stated, read in its favour (the write is reached, it can succeed
\* and no later entry rewrites the file): every modifications entry whose
\* value is a string of length at least 1 has its target overwritten, the
\* file holding that value after the call.
C4_Original ==
    Applied =>
      \A i \in 1..Len(ModItems) :
        (NonEmptyStr(ModItems[i].val) /\ i < FirstModFailure /\ ModWritable(i)
           /\ NotRewritten(i))
        => Holds(ModFile(i), ModItems[i].val.s)

\* C4 amended: the modifications are processed in order up to the first write
\* that raises; before that point exactly the entries whose value is a string
\* with a non-whitespace character are written (a whitespace-only string is
\* skipped like an empty one), nothing is written from that point on, and a
\* written file holds exactly the value unless a later entry rewrites it.
C4_Amended ==
    Applied =>
      \A i \in 1..Len(ModItems) :
        /\ Wrote("mod", i) <=> (NonBlankStr(ModItems[i].val) /\ i < FirstModFailure)
        /\ (Wrote("mod", i) /\ NotRewritten(i))
             => Holds(ModFile(i), ModItems[i].val.s)

\* a whitespace-only modification is skipped, the padded one after it is
\* written as given
C4_Witness ==
    /\ Applied
    /\ Len(ModItems) = 2
    /\ ModItems[1] = Entry(KeySub, Str(<<" ">>))
    /\ ModItems[2] = Entry(KeyMain, Str(<<" ", "b">>))
    /\ ~Wrote("mod", 1) /\ Wrote("mod", 2)
    /\ Holds(FileMain, <<" ", "b">>)

\* the write of new file i can succeed by itself on the tree before the call
NewWritable(i) ==
    /\ CanMkdir(call.fs0, call.dirs0, Parent(NewFile(i)))
    /\ NewFile(i) \notin call.dirs0

\* both fields of the change-set are mappings, or absent
MappingsOnly ==
    /\ call.enhancements.mods.present => call.enhancements.mods.ismap
    /\ call.enhancements.new.present => call.enhancements.new.ismap

\* C5: a write failure for one file is not fatal to the batch: every other
\* applicable entry whose own write can succeed is written, also after the
\* failing one.
C5_RestStillWritten ==
    (Applied /\ MappingsOnly) =>
      /\ \A i \in 1..Len(ModItems) :
           (NonBlankStr(ModItems[i].val) /\ ModWritable(i)) => Wrote("mod", i)
      /\ \A i \in 1..Len(NewItems) :
           (NonBlankStr(NewItems[i].val) /\ NewWritable(i)) => Wrote("new", i)

\* the key has a parent-directory segment
HasTraversal(key) == \E i \in 1..Len(key) : key[i] = ".."

\* C6: an entry whose path has a parent-directory traversal segment is
\* rejected (never written), and no file outside the project root is created
\* or modified.
C6_NothingOutsideRoot ==
    Applied =>
      /\ \A i \in 1..Len(ModItems) : HasTraversal(ModItems[i].key) => ~Wrote("mod", i)
      /\ \A i \in 1..Len(NewItems) : HasTraversal(NewItems[i].key) => ~Wrote("new", i)
      /\ \A f \in AllFiles : ~InsideRoot(call.project_dir, f) => Same(f)

(***************************************************************************)
(* Vocabulary of the handler properties                                    *)
(***************************************************************************)
Done == resp.phase = "done"

\* the request's project_path existed when the request arrived
Existing == PathExists(resp.fs0, resp.dirs0, resp.project_path)

Count(seq, x) == Cardinality({i \in 1..Len(seq) : seq[i] = x})

TreeUnchanged == fs = resp.fs0 /\ dirs = resp.dirs0

\* the planning call of an /enhance-app request failed, or its text is no JSON
PlanningFailed ==
    \/ resp.oracles[2].raised
    \/ ~json_loads(CleanText(resp.oracles[2].text)).ok

\* C1: for both endpoints a project_path that does not exist is answered with
\* the not-found status 404.
C1_MissingIs404 ==
    (Done /\ ~Existing) => resp.status_code = 404

\* C7: generate_enhancement never raises (the request is answered 200), and
\* when the oracle call fails or its text is no JSON the returned value has
\* an error field and the summary that enhancement generation failed.
C7_FailureObject ==
    (Done /\ resp.endpoint = "/enhance-app" /\ Existing) =>
      /\ resp.status_code = 200
      /\ PlanningFailed =>
           /\ "error" \in resp.enhancements.keys
           /\ "changes_summary" \in resp.enhancements.keys
           /\ resp.enhancements.changes_summary = "Failed to generate enhancements"

\* the field is present and is not a mapping of string to string
NotStrMapping(field) ==
    field.present /\ (~field.ismap \/ \E i \in 1..Len(field.items) :
                                        field.items[i].val.t # "str")

\* the planning call's text parsed, and its modifications or new_files is not
\* a mapping of string to string
PlanMalformed ==
    /\ ~resp.oracles[2].raised
    /\ LET p == json_loads(CleanText(resp.oracles[2].text))
       IN  p.ok /\ (NotStrMapping(p.value.mods) \/ NotStrMapping(p.value.new))

\* C8: a parsed response whose modifications or new_files is not a mapping of
\* string to string is treated as a parse failure: nothing is written and the
\* failure object is returned.
C8_MalformedRejected ==
    (Done /\ resp.endpoint = "/enhance-app" /\ Existing /\ PlanMalformed) =>
      /\ resp.writes = <<>>
      /\ TreeUnchanged
      /\ resp.enhancements = FailureObject

\* the analysis call raised, its text is no JSON, or the parsed value lacks a
\* required report field
AnalysisFailed ==
    \/ resp.oracles[1].raised
    \/ LET p == json_loads(CleanText(resp.oracles[1].text))
       IN  ~p.ok \/ ~(ReportKeys \subseteq p.value.keys)

\* C9: /analyze-existing on an existing path answers 200 with status success,
\* and when the oracle call raises, its text is unparseable or a required
\* field is missing, the analysis is the fallback report: files_count is the
\* number of files read, components [main.py, models.py], the placeholder
\* issue, complexity score 5.
C9_AnalyzeFallsBack ==
    (Done /\ resp.endpoint = "/analyze-existing" /\ Existing) =>
      /\ resp.status_code = 200 /\ resp.status = "success"
      /\ AnalysisFailed =>
           /\ resp.analysis.files_count =
                Cardinality(_read_project_files(resp.fs0, resp.dirs0, resp.project_path))
           /\ resp.analysis.main_components = <<"main.py", "models.py">>
           /\ resp.analysis.identified_issues = <<"No specific issues found">>
           /\ resp.analysis.complexity_score = 5

\* the oracle answered with a report that lacks complexity_score, on a project
\* of three files
C9_Witness ==
    /\ Done /\ resp.endpoint = "/analyze-existing" /\ Existing
    /\ resp.oracles = <<OracleSays(JsonText("report_missing"))>>
    /\ resp.status = "success"
    /\ resp.analysis.files_count = 3
    /\ resp.analysis.complexity_score = 5

\* C10: a request whose project_path is missing makes no oracle call and
\* writes no file, on both endpoints.
C10_MissingNoWork ==
    (Done /\ ~Existing) =>
      /\ Count(resp.trace, "oracle") = 0
      /\ Count(resp.trace, "write") = 0
      /\ resp.writes = <<>>
      /\ TreeUnchanged

\* an /enhance-app request for the missing path was answered with an error
C10_Witness ==
    /\ Done /\ ~Existing
    /\ resp.endpoint = "/enhance-app"
    /\ resp.project_path = MissingDir
    /\ resp.status_code # 200
    /\ resp.trace = <<"exists">>

(***************************************************************************)
(* Order of the two loops of _apply_enhancements                           *)
(***************************************************************************)
\* every write of a modification comes before every write of a new file
ModsBeforeNew ==
    \A m, n \in 1..Len(call.writes) :
      (call.writes[m].kind = "mod" /\ call.writes[n].kind = "new") => m < n

\* modification i and new file j name the same file
SamePath(i, j) == ModFile(i) = NewFile(j)

\* C20 as stated, read in its favour (no write of the call raises): the
\* modifications are written before the new files, so a path that is in both
\* mappings with non-empty string values ends with the new_files value.
C20_Original ==
    (Applied /\ MappingsOnly /\ ~call.err) =>
      /\ ModsBeforeNew
      /\ \A i \in 1..Len(ModItems), j \in 1..Len(NewItems) :
           (SamePath(i, j) /\ NonEmptyStr(ModItems[i].val) /\ NonEmptyStr(NewItems[j].val))
           => Holds(NewFile(j), NewItems[j].val.s)

\* C20 amended: the modifications are written before the new files; when no
\* write of the call raises, a path that is in both mappings with values that
\* hold a non-whitespace character ends with the new_files value, and where
\* the new_files value is a whitespace-only string that entry is skipped and
\* the file ends with the modification's value.
C20_Amended ==
    (Applied /\ MappingsOnly) =>
      /\ ModsBeforeNew
      /\ ~call.err =>
           \A i \in 1..Len(ModItems), j \in 1..Len(NewItems) :
             (SamePath(i, j) /\ NonBlankStr(ModItems[i].val)) =>
               /\ NonBlankStr(NewItems[j].val) => Holds(NewFile(j), NewItems[j].val.s)
               /\ (NonEmptyStr(NewItems[j].val) /\ ~NonBlankStr(NewItems[j].val))
                    => Holds(ModFile(i), ModItems[i].val.s)

\* main.py is in both mappings: written as a modification, then as new file
C20_Witness ==
    /\ Applied /\ ~call.err
    /\ Len(ModItems) = 1 /\ Len(NewItems) = 1
    /\ ModItems[1] = Entry(KeyMain, Str(<<"a">>))
    /\ NewItems[1] = Entry(KeyMain, Str(<<" ", "b">>))
    /\ Len(call.writes) = 2
    /\ call.writes[1].kind = "mod" /\ call.writes[2].kind = "new"
    /\ Holds(FileMain, <<" ", "b">>)

(***************************************************************************)
(* ResponseNormalizer                                                      *)
(***************************************************************************)
Cleaned == call.phase = "cleaned"

\* a JSON document between an opening fence with a tag and a closing fence
FencedJsonDocument ==
    /\ call.shape = "fenced" /\ call.tag # <<>> /\ call.closed
    /\ json_loads(call.inner).ok

\* the call returned what json.loads gives for the inner text
SameAsInner == ~call.raised /\ call.value = json_loads(call.inner).value

NotJson == ~json_loads(CleanText(call.text)).ok

\* C15: _clean_json_response never raises, and for a text that is not valid
\* JSON after stripping it returns a value with an error indicator and at
\* most the first 500 characters of the text.
C15_NeverRaises ==
    Cleaned =>
      /\ ~call.raised
      /\ NotJson =>
           /\ "error" \in call.value.keys
           /\ Len(call.value.raw) <= 500
           /\ IsPrefix(call.value.raw, CleanText(call.text))

(***************************************************************************)
(* ProjectReader                                                           *)
(***************************************************************************)
\* the key of a file that was read: its path relative to the project root
RelativeKey(file) == SubSeq(file, Len(call.project_path) + 1, Len(file))

HasSegment(key, name) == \E i \in 1..Len(key) : key[i] = name

\* C16: no key of the file set that _read_project_files returns has a venv or
\* __pycache__ segment, and every key is a path under the project root.
C16_NoEnvNoCache ==
    call.phase = "read" =>
      \A file \in call.files :
        /\ ~HasSegment(RelativeKey(file), "venv")
        /\ ~HasSegment(RelativeKey(file), "__pycache__")
        /\ Len(RelativeKey(file)) >= 1
        /\ ~HasSegment(RelativeKey(file), "..")
        /\ call.project_path \o RelativeKey(file) = file

\* a tree with a venv and a bytecode cache is read, and the file set has the
\* sources beside them
C16_Witness ==
    /\ call.phase = "read" /\ call.project_path = <<"proj">>
    /\ {<<"proj", "venv", "lib.py">>, <<"proj", "sub", "__pycache__", "new.py">>,
        <<"proj", "sub", "new.py">>, <<"proj", "main.py">>} \subseteq DOMAIN fs
    /\ <<"proj", "main.py">> \in call.files
    /\ <<"proj", "sub", "new.py">> \in call.files
    /\ <<"proj", "venv", "lib.py">> \notin call.files

(***************************************************************************)
(* Order of the steps of one /enhance-app request                          *)
(***************************************************************************)
EnhanceOnExisting == Done /\ resp.endpoint = "/enhance-app" /\ Existing

\* the effects of the request after the existence check
Steps == Tail(resp.trace)

AllWrites(seq) == \A i \in 1..Len(seq) : seq[i] = "write"

\* the planning oracle call, or the decoding of its answer, raised
PlanningRaised ==
    \/ resp.oracles[2].raised
    \/ json_loads(CleanText(resp.oracles[2].text)).error = "RecursionError"

\* C19 as stated: project read, analysis oracle call, second project read,
\* planning oracle call, change application, once each and in this order; no
\* write before the planning call returned; exactly two oracle calls.
C19_Original ==
    EnhanceOnExisting =>
      /\ Len(Steps) >= 5
      /\ SubSeq(Steps, 1, 5) = <<"read", "oracle", "read", "oracle", "apply">>
      /\ AllWrites(SubSeq(Steps, 6, Len(Steps)))
      /\ Count(Steps, "oracle") = 2

\* C19 amended: project read, analysis oracle call, second project read and
\* planning oracle call happen once each in this order, and exactly two
\* oracle calls are made; the change application follows exactly once when
\* the planning call and the decoding of its answer did not raise, and does
\* not happen at all when one of them raised; no file is written before the
\* application.
C19_Amended ==
    EnhanceOnExisting =>
      /\ Len(Steps) >= 4
      /\ SubSeq(Steps, 1, 4) = <<"read", "oracle", "read", "oracle">>
      /\ Count(Steps, "oracle") = 2
      /\ IF PlanningRaised
         THEN Len(Steps) = 4 /\ TreeUnchanged
         ELSE /\ Len(Steps) >= 5 /\ Steps[5] = "apply"
              /\ AllWrites(SubSeq(Steps, 6, Len(Steps)))
              /\ Len(Steps) = 5 + Len(resp.writes)

C19_Witness ==
    /\ EnhanceOnExisting
    /\ resp.oracles[2] = OracleSays(JsonText("cs_ok"))
    /\ Steps = <<"read", "oracle", "read", "oracle", "apply", "write", "write">>
    /\ Holds(FileMain, <<" ", "b">>)

(***************************************************************************)
(* Concurrent requests                                                     *)
(***************************************************************************)
\* request a has read the project and has not finished its writes
BetweenReadAndWrites(a) ==
    Arrived(a) /\ loop.reqs[a].pc \in {"oracle1", "read2", "oracle2", "apply"}

\* request a is in a round-trip to the oracle
WaitingOnOracle(a) == Arrived(a) /\ loop.reqs[a].pc \in {"oracle1", "oracle2"}

\* request b is received and not answered
Unfinished(b) == Arrived(b) /\ loop.reqs[b].pc # "done"

SameProject(a, b) == loop.reqs[a].project_path = loop.reqs[b].project_path

\* C17: two requests to /enhance-app on the same project path are not
\* isolated: between the project read of one and the end of its writes, the
\* other request can take its next step (its read, its writes).
C17_CanInterleave ==
    \A a, b \in Requests :
      (a # b /\ BetweenReadAndWrites(a) /\ Unfinished(b) /\ SameProject(a, b))
      => ENABLED Step(b)

\* C18: while one request is in its round-trip to the oracle, a request for
\* another project can take its next step without waiting for the first.
C18_OthersProceed ==
    \A a, b \in Requests :
      (a # b /\ WaitingOnOracle(a) /\ Unfinished(b) /\ ~SameProject(a, b))
      => ENABLED Step(b)

(***************************************************************************)
(* The new-project flow, POST /generate                                    *)
(***************************************************************************)
Generated == resp.phase = "done" /\ resp.endpoint = "/generate"

\* the positions of the trace with the given operation
Positions(op) == {i \in 1..Len(resp.trace) : resp.trace[i].op = op}

\* the number of oracle calls made for one artifact
OracleCalls(what) ==
    Cardinality({i \in Positions("oracle") : resp.trace[i].what = what})

RECURSIVE OracleOrder(_)
\* what the oracle was called for, call after call
OracleOrder(seq) ==
    IF seq = <<>> THEN <<>>
    ELSE (IF Head(seq).op = "oracle" THEN <<Head(seq).what>> ELSE <<>>)
         \o OracleOrder(Tail(seq))

FileOf(name) == resp.project_path \o <<name>>

\* every templated file named is on disk with the text its generator gives
\* for the descriptor and the project name of the response
TemplatedAsDescriptor(names) ==
    \A name \in names :
      Holds(FileOf(name), Template(name, resp.analysis, resp.project_name))

FastapiSuccess ==
    Generated /\ resp.analysis.framework = "fastapi" /\ resp.status_code = 200

\* C13 as stated: for a fastapi descriptor, after the one classification
\* call, the oracle is called exactly once for each of main entry file, data
\* models, schema definitions, data-access layer, environment template and
\* documentation, and never for the dependency manifest, the container build
\* file and the compose file, which are functions of the descriptor and the
\* project name.
C13_Original ==
    FastapiSuccess =>
      /\ OracleCalls("classify") = 1 /\ resp.trace[1] = Event("oracle", "classify")
      /\ \A a \in {"main.py", "models.py", "schemas.py", "crud.py",
                   ".env.example", "README.md"} : OracleCalls(a) = 1
      /\ \A a \in {"requirements.txt", "Dockerfile", "docker-compose.yml"} :
           OracleCalls(a) = 0
      /\ TemplatedAsDescriptor({"requirements.txt", "Dockerfile", "docker-compose.yml"})

\* C13 amended: in a handling for a fastapi descriptor that ends in the
\* success response, the oracle is called once for the classification and
\* then exactly once for each of main.py, models.py, database.py,
\* schemas.py, crud.py and README.md, in this order, and never for
\* requirements.txt, Dockerfile, docker-compose.yml and .env.example, whose
\* content is a function of the descriptor and the project name; in a
\* handling that fails, the calls made are a prefix of that sequence.
C13_Amended ==
    (Generated /\ resp.analysis.framework = "fastapi") =>
      /\ IsPrefix(OracleOrder(resp.trace),
                  <<"classify", "main.py", "models.py", "database.py",
                    "schemas.py", "crud.py", "README.md">>)
      /\ resp.status_code = 200 =>
           /\ Len(OracleOrder(resp.trace)) = 7
           /\ TemplatedAsDescriptor({"requirements.txt", "Dockerfile",
                                     "docker-compose.yml", ".env.example"})

C13_Witness ==
    /\ FastapiSuccess
    /\ resp.analysis.database = "postgresql" /\ resp.project_name = "shop"
    /\ Len(OracleOrder(resp.trace)) = 7
    /\ Holds(FileOf("docker-compose.yml"),
             <<"web", "DATABASE_URL", "shop", "db", "POSTGRES_DB", "shop">>)
    /\ Holds(FileOf("main.py"), <<"\n", "c", "o", "d", "e", "\n">>)

\* C12: a descriptor with a framework that has no scaffold is rejected with
\* status 400 before any generation work: no oracle call for an artifact, no
\* directory or file created, no provisioning scheduled.
C12_UnsupportedIs400 ==
    (Generated /\ resp.analysis.framework # "fastapi") =>
      /\ resp.status_code = 400
      /\ OracleOrder(resp.trace) = <<"classify">>
      /\ Positions("mkdir") = {} /\ Positions("write") = {}
      /\ Positions("add_task") = {} /\ ~resp.scheduled

\* the task is added after every file of the scaffold is written, and only
\* in a handling that answers with success
ScheduledAfterWrites ==
    Generated =>
      /\ resp.scheduled <=> resp.status_code = 200
      /\ resp.scheduled <=> Positions("add_task") # {}
      /\ resp.scheduled =>
           /\ Positions("add_task") = {Len(resp.trace)}
           /\ Cardinality(Positions("write")) = 10
           /\ \A name \in {"main.py", "requirements.txt", "README.md"} :
                FileOf(name) \in DOMAIN fs

\* the step that answers with success leaves its task not yet run
ResponseFirst ==
    (resp' # resp /\ resp'.status_code = 200) =>
      /\ Len(bg') = Len(bg) + 1
      /\ bg'[Len(bg')] = [project_path |-> resp'.project_path, status |-> "scheduled"]

\* a step of the provisioning, however it ends, leaves the response as it is
ProvisioningSilent ==
    (\E i \in 1..Len(bg) : Len(bg') = Len(bg) /\ bg'[i].status # bg[i].status)
    => resp' = resp

\* C11: provisioning is scheduled only after all generated files are
\* written, the success response is produced without waiting for it, and no
\* failure of the provisioning changes the response or reaches the caller.
C11_FireAndForget ==
    []ScheduledAfterWrites /\ [][ResponseFirst /\ ProvisioningSilent]_vars

\* the response is success and the provisioning of its project has failed
C11_Witness ==
    /\ Generated /\ resp.status_code = 200 /\ resp.status = "success"
    /\ \E i \in 1..Len(bg) :
         /\ bg[i].project_path = resp.project_path
         /\ bg[i].status = "venv_failed"

(***************************************************************************)
(* /generate and failures of the oracle                                    *)
(***************************************************************************)
\* the step is one handling of POST /generate
GenerateStep == call'.handled = call.handled + 1

\* in the handling just made, the descriptor is for fastapi and the oracle
\* fails on the prompt of an artifact
ArtifactCallFails ==
    /\ resp'.analysis.framework = "fastapi"
    /\ \E a \in {"main.py", "models.py", "database.py", "schemas.py", "crud.py",
                 "README.md"} : resp'.oracles[a].raised

\* in the handling just made, the descriptor names a framework without a
\* scaffold
ScaffoldUnavailable == resp'.analysis.framework # "fastapi"

\* a failing handling answers with an error and leaves disk and tasks alone
NothingOnFailure ==
    (GenerateStep /\ (ArtifactCallFails \/ ScaffoldUnavailable)) =>
      /\ resp'.status_code >= 400 /\ resp'.status = "error"
      /\ fs' = fs /\ dirs' = dirs /\ bg' = bg

\* a handling that changes the disk has produced the whole file set before
WritesAfterProduction ==
    (GenerateStep /\ (fs' # fs \/ dirs' # dirs)) =>
      /\ resp'.analysis.framework = "fastapi"
      /\ \A a \in DOMAIN resp'.oracles : ~resp'.oracles[a].raised
      /\ \A i, j \in 1..Len(resp'.trace) :
           (resp'.trace[i].op \in {"oracle", "template"}
            /\ resp'.trace[j].op \in {"mkdir", "write"}) => i < j
      /\ Cardinality({i \in 1..Len(resp'.trace) :
                        resp'.trace[i].op \in {"oracle", "template"}}) = 11

\* C21: POST /generate is all-or-nothing with respect to oracle failures: when
\* an artifact oracle call fails, or the framework has no scaffold (flask
\* included), the request ends in an error response, no project directory is
\* created, no file is written and no provisioning is scheduled; files are
\* written only after every artifact of the file set has been produced.
C21_AllOrNothing == [][NothingOnFailure /\ WritesAfterProduction]_vars

\* the oracle failed on the prompt for crud.py, after four artifacts were
\* produced: error response, nothing under generated_apps, no task
C21_Witness ==
    /\ Generated /\ resp.status_code = 500
    /\ resp.analysis.framework = "fastapi"
    /\ resp.oracles["crud.py"].raised
    /\ OracleOrder(resp.trace) =
         <<"classify", "main.py", "models.py", "database.py", "schemas.py", "crud.py">>
    /\ DOMAIN fs = {} /\ dirs = {<<>>, <<"generated_apps">>}
    /\ bg = <<>>

====
